---- MODULE Spec2Model ----
(***************************************************************************)
(* Resource dependency chains (omni-viral/chains).                         *)
(*                                                                         *)
(* Chain::build resolves, for one chain identifier, the ring of links the  *)
(* passes declare into merged states and acquire/release synchronization   *)
(* decisions.  Image chains add with_presentable_sync and store_op.        *)
(***************************************************************************)
EXTENDS Integers, Sequences, FiniteSets, TLC

\* Longest ring of passes the model builds chains for.
MaxPasses == 3

\* GraphChains::new is called with a count of at most MaxCount.
MaxCount == 2

\* Queue indices requested from a family, and the number of ensure_queue
\* calls that are followed.
MaxIndex == 3
MaxCalls == 3

(***************************************************************************)
(* utils/access.rs: access flags and their read / write classification.    *)
(***************************************************************************)

ImageReadFlags ==
    { "COLOR_ATTACHMENT_READ", "DEPTH_STENCIL_ATTACHMENT_READ", "TRANSFER_READ",
      "SHADER_READ", "HOST_READ", "MEMORY_READ", "INPUT_ATTACHMENT_READ" }

ImageWriteFlags ==
    { "COLOR_ATTACHMENT_WRITE", "DEPTH_STENCIL_ATTACHMENT_WRITE", "TRANSFER_WRITE",
      "SHADER_WRITE", "HOST_WRITE", "MEMORY_WRITE" }

BufferReadFlags ==
    { "TRANSFER_READ", "SHADER_READ", "HOST_READ", "MEMORY_READ",
      "INDEX_BUFFER_READ", "VERTEX_BUFFER_READ", "INDIRECT_COMMAND_READ",
      "CONSTANT_BUFFER_READ" }

BufferWriteFlags ==
    { "TRANSFER_WRITE", "SHADER_WRITE", "HOST_WRITE", "MEMORY_WRITE" }

\* Access::none(): the empty mask.
none == {}

\* Access::is_read: the mask contains at least one of the read flags.
is_read(kind, access) ==
    IF kind = "image"
    THEN \E f \in ImageReadFlags : f \in access
    ELSE \E f \in BufferReadFlags : f \in access

\* Access::is_write: the mask contains at least one of the write flags.
is_write(kind, access) ==
    IF kind = "image"
    THEN \E f \in ImageWriteFlags : f \in access
    ELSE \E f \in BufferWriteFlags : f \in access

(***************************************************************************)
(* utils/layout.rs: the common layout of two image layouts.                *)
(***************************************************************************)

\* The match arm that panics: the layouts differ and one of them is Present.
common_image_layout_panics(left, right) ==
    left # right /\ (left = "Present" \/ right = "Present")

\* The value of common_image_layout where it does not panic.
common_image_layout(left, right) ==
    IF left = right THEN left
    ELSE IF (left = "ShaderReadOnlyOptimal" /\ right = "DepthStencilReadOnlyOptimal")
            \/ (left = "DepthStencilReadOnlyOptimal" /\ right = "ShaderReadOnlyOptimal")
    THEN "DepthStencilReadOnlyOptimal"
    ELSE "General"

(***************************************************************************)
(* utils/state.rs: the State trait for buffer and image states.  A state   *)
(* is [access, layout]; a buffer state is its access mask alone and keeps  *)
(* the layout NoLayout.                                                    *)
(***************************************************************************)

NoLayout == "NoLayout"

\* Faulty variant of discard_content: the image layout is kept.
discard_content_keep(kind, state) == state

\* State::discard_content: identity for buffers, layout Undefined for images.
discard_content(kind, state) ==
    IF kind = "image" THEN [access |-> state.access, layout |-> "Undefined"]
    ELSE state

\* State::replace_access.
replace_access(kind, state, access) ==
    [access |-> access, layout |-> state.layout]

\* Faulty variant of with_no_access: the access mask is kept.
with_no_access_keep(kind, state) == state

\* State::with_no_access.
with_no_access(kind, state) == replace_access(kind, state, none)

\* State::merge returns Some exactly when both accesses are reads.
merge_is_some(kind, a, b) ==
    is_read(kind, a.access) /\ is_read(kind, b.access)

\* State::merge panics when it reaches common_image_layout's panicking arm.
merge_panics(kind, a, b) ==
    /\ kind = "image"
    /\ merge_is_some(kind, a, b)
    /\ common_image_layout_panics(a.layout, b.layout)

\* The state State::merge returns inside Some.
merge(kind, a, b) ==
    IF kind = "image"
    THEN [access |-> a.access \cup b.access,
          layout |-> common_image_layout(a.layout, b.layout)]
    ELSE [access |-> a.access \cup b.access, layout |-> NoLayout]

(***************************************************************************)
(* chain.rs: queue identifiers, links, synchronization decisions.          *)
(***************************************************************************)

\* struct QueueId.
QueueId(index, family) == [index |-> index, family |-> family]

\* struct Link.
Link(id, stages, state, usage) ==
    [id |-> id, stages |-> stages, state |-> state, usage |-> usage]

\* struct PassLinks.
PassLinks(queue, links) == [queue |-> queue, links |-> links]

\* Range<T>: start..end.
Range(start, end) == [start |-> start, end |-> end]

\* LinkSync::None.
SyncNone == [kind |-> "None"]

\* LinkSync::Barrier.
SyncBarrier(states, stages) ==
    [kind |-> "Barrier", states |-> states, stages |-> stages]

\* LinkSync::Semaphore.
SyncSemaphore(semaphore) == [kind |-> "Semaphore", semaphore |-> semaphore]

\* LinkSync::BarrierSemaphore.
SyncBarrierSemaphore(semaphore, states, stages) ==
    [kind |-> "BarrierSemaphore", semaphore |-> semaphore,
     states |-> states, stages |-> stages]

\* LinkSync::Transfer.
SyncTransfer(semaphore, states, stages, other) ==
    [kind |-> "Transfer", semaphore |-> semaphore,
     states |-> states, stages |-> stages, other |-> other]

\* LinkSync::is_none.
is_none(sync) == sync.kind = "None"

\* Faulty variant of new_semaphore: the wait half belongs to another pair.
new_semaphore_unpaired(count) ==
    [signal |-> [pair |-> count + 1, half |-> "signal"],
     wait |-> [pair |-> count + 2, half |-> "wait"]]

\* The allocator callback: the count-th call returns the two halves of a
\* fresh semaphore pair.
new_semaphore(count) ==
    [signal |-> [pair |-> count + 1, half |-> "signal"],
     wait |-> [pair |-> count + 1, half |-> "wait"]]

\* An absent slot of Chain::links (Option::None).
NoLink == [present |-> FALSE]

\* The ChainLink that step 1 of Chain::build creates for a pass and its link.
NewChainLink(pass, link) ==
    [present |-> TRUE,
     queue |-> pass.queue,
     stages |-> link.stages,
     state |-> link.state,
     merged_state |-> link.state,
     merged_stages |-> link.stages,
     acquire |-> SyncNone,
     release |-> SyncNone]

\* Indices of the links of a pass that address the chain id.
Matching(pass, id) == { k \in 1..Len(pass.links) : pass.links[k].id = id }

\* pass.links.iter().find(|link| link.id == id): the first matching index.
FindLink(pass, id) ==
    CHOOSE k \in Matching(pass, id) : \A m \in Matching(pass, id) : k <= m

\* Faulty variant of Collect: a pass without a matching link is given its first
\* declared link.
CollectAny(passes, id) ==
    [i \in 1..Len(passes) |->
        IF Matching(passes[i], id) # {}
        THEN NewChainLink(passes[i], passes[i].links[FindLink(passes[i], id)])
        ELSE IF Len(passes[i].links) > 0
        THEN NewChainLink(passes[i], passes[i].links[1])
        ELSE NoLink]

\* Step 1 of Chain::build: one slot per pass.
Collect(passes, id) ==
    [i \in 1..Len(passes) |->
        IF Matching(passes[i], id) # {}
        THEN NewChainLink(passes[i], passes[i].links[FindLink(passes[i], id)])
        ELSE NoLink]

\* Step 1 of Chain::build: usage |= link.usage for every collected link.
CollectUsage(usage, passes, id) ==
    usage \cup UNION { passes[i].links[FindLink(passes[i], id)].usage :
                        i \in { j \in 1..Len(passes) : Matching(passes[j], id) # {} } }

\* Indices of the existing links.
Existing(links) == { j \in 1..Len(links) : links[j].present }

\* Smallest element of a non-empty set of indices.
First(S) == CHOOSE j \in S : \A m \in S : j <= m

\* Largest element of a non-empty set of indices.
Last(S) == CHOOSE j \in S : \A m \in S : j >= m

\* Faulty variant of NextExisting: the search wraps around to the link itself.
NextExistingOrSelf(links, index) ==
    LET after == { j \in Existing(links) : j > index }
        before == { j \in Existing(links) : j <= index }
    IN IF after # {} THEN First(after)
       ELSE IF before # {} THEN First(before)
       ELSE 0

\* after.iter_mut().chain(before.iter_mut()).filter_map(Option::as_mut).next():
\* the next existing link in ring order, the link itself excluded; 0 if none.
NextExisting(links, index) ==
    LET after == { j \in Existing(links) : j > index }
        before == { j \in Existing(links) : j < index }
    IN IF after # {} THEN First(after)
       ELSE IF before # {} THEN First(before)
       ELSE 0

(***************************************************************************)
(* Chain::build, step 2: the merge of compatible neighbours.               *)
(***************************************************************************)

\* Faulty variant of MergeStep: the queues of the two links are not compared.
MergeStepAnyQueue(kind, links, index, next) ==
    IF merge_is_some(kind, links[index].state, links[next].state)
    THEN LET state == merge(kind, links[index].state, links[next].state)
             stages == links[index].stages \cup links[next].stages
         IN [links EXCEPT
                ![index].merged_state = state,
                ![next].merged_state = state,
                ![index].merged_stages = stages,
                ![next].merged_stages = stages]
    ELSE links

\* One iteration of the merge loop for an existing link and its next link.
MergeStep(kind, links, index, next) ==
    IF merge_is_some(kind, links[index].state, links[next].state)
       /\ links[index].queue = links[next].queue
    THEN LET state == merge(kind, links[index].state, links[next].state)
             stages == links[index].stages \cup links[next].stages
         IN [links EXCEPT
                ![index].merged_state = state,
                ![next].merged_state = state,
                ![index].merged_stages = stages,
                ![next].merged_stages = stages]
    ELSE links

\* for index in 0..(count * 2): k counts the iterations done so far.  The
\* walk ends early (break) at a link without a next one and stops with a
\* panic when State::merge panics.
RECURSIVE MergeWalk(_, _, _)
MergeWalk(kind, links, k) ==
    LET count == Len(links)
    IN IF k >= count * 2 THEN [panic |-> FALSE, links |-> links]
       ELSE LET index == (k % count) + 1
            IN IF ~links[index].present THEN MergeWalk(kind, links, k + 1)
               ELSE LET next == NextExisting(links, index)
                    IN IF next = 0 THEN [panic |-> FALSE, links |-> links]
                       ELSE IF merge_panics(kind, links[index].state, links[next].state)
                       THEN [panic |-> TRUE, links |-> links]
                       ELSE MergeWalk(kind, MergeStep(kind, links, index, next), k + 1)

(***************************************************************************)
(* Chain::build, step 3: the synchronization decision of every transition. *)
(***************************************************************************)

\* Faulty variant of TransitionStates: content is discarded when the next access
\* is a read.
TransitionStatesFlipped(kind, link, next) ==
    Range(IF is_read(kind, next.state.access)
          THEN discard_content(kind, link.merged_state)
          ELSE link.merged_state,
          next.merged_state)

\* let states = ...: the state range of the transition from link to next.
TransitionStates(kind, link, next) ==
    Range(IF is_read(kind, next.state.access)
          THEN link.merged_state
          ELSE discard_content(kind, link.merged_state),
          next.merged_state)

\* let stages = link.merged_stages..next.merged_stages.
TransitionStages(link, next) == Range(link.merged_stages, next.merged_stages)

\* states.start / states.end = ... .with_no_access().
StrippedStates(kind, states) ==
    Range(with_no_access(kind, states.start), with_no_access(kind, states.end))

\* Faulty variant of SameFamilySync: the barrier is folded into the release when
\* the stripped end points are equal.
SameFamilySyncFlipped(kind, states, stages, sem) ==
    LET stripped == StrippedStates(kind, states)
    IN IF stripped.start # stripped.end
       THEN [release |-> SyncSemaphore(sem.signal),
             acquire |-> SyncSemaphore(sem.wait)]
       ELSE [release |-> SyncBarrierSemaphore(sem.signal, stripped, stages),
             acquire |-> SyncSemaphore(sem.wait)]

\* Faulty variant of SameFamilySync: the acquire is given the signal handle.
SameFamilySyncSignalTwice(kind, states, stages, sem) ==
    LET stripped == StrippedStates(kind, states)
    IN IF stripped.start = stripped.end
       THEN [release |-> SyncSemaphore(sem.signal),
             acquire |-> SyncSemaphore(sem.signal)]
       ELSE [release |-> SyncBarrierSemaphore(sem.signal, stripped, stages),
             acquire |-> SyncSemaphore(sem.signal)]

\* Different queues of one family: release and acquire of the transition.
SameFamilySync(kind, states, stages, sem) ==
    LET stripped == StrippedStates(kind, states)
    IN IF stripped.start = stripped.end
       THEN [release |-> SyncSemaphore(sem.signal),
             acquire |-> SyncSemaphore(sem.wait)]
       ELSE [release |-> SyncBarrierSemaphore(sem.signal, stripped, stages),
             acquire |-> SyncSemaphore(sem.wait)]

\* Faulty variant of TransferSync: both decisions name the queue of the later link.
TransferSyncSameOther(kind, link, next, states, stages, sem) ==
    LET stripped == StrippedStates(kind, states)
    IN [release |-> SyncTransfer(sem.signal, stripped, stages, next.queue),
        acquire |-> SyncTransfer(sem.wait, stripped, stages, next.queue)]

\* Queues of different families: release and acquire of the transition.
TransferSync(kind, link, next, states, stages, sem) ==
    LET stripped == StrippedStates(kind, states)
    IN [release |-> SyncTransfer(sem.signal, stripped, stages, next.queue),
        acquire |-> SyncTransfer(sem.wait, stripped, stages, link.queue)]

\* Faulty variant of ResolveStep: the decisions of a transition are stored
\* in the later link's release and the earlier link's acquire.
ResolveStepWrongLink(kind, links, index, n, sems) ==
    LET link == links[index]
        next == links[n]
        states == TransitionStates(kind, link, next)
        stages == TransitionStages(link, next)
        asserts == is_none(link.release) /\ is_none(next.acquire)
    IN IF merge_is_some(kind, link.state, next.state) /\ link.queue = next.queue
       THEN [links |-> links, sems |-> sems, asserts |-> asserts]
       ELSE IF link.queue = next.queue
       THEN [links |-> [links EXCEPT ![n].release = SyncBarrier(states, stages)],
             sems |-> sems, asserts |-> asserts]
       ELSE IF link.queue.family = next.queue.family
       THEN LET sync == SameFamilySync(kind, states, stages, new_semaphore(sems))
            IN [links |-> [links EXCEPT ![n].release = sync.release,
                                        ![index].acquire = sync.acquire],
                sems |-> sems + 1, asserts |-> asserts]
       ELSE LET sync == TransferSync(kind, link, next, states, stages,
                                     new_semaphore(sems))
            IN [links |-> [links EXCEPT ![n].release = sync.release,
                                        ![index].acquire = sync.acquire],
                sems |-> sems + 1, asserts |-> asserts]

\* One iteration of the synchronization loop for an existing link and its
\* next link; sems counts the calls of new_semaphore so far, asserts tells
\* whether both debug_assert! conditions of the iteration held.
ResolveStep(kind, links, index, n, sems) ==
    LET link == links[index]
        next == links[n]
        states == TransitionStates(kind, link, next)
        stages == TransitionStages(link, next)
        asserts == is_none(link.release) /\ is_none(next.acquire)
    IN IF merge_is_some(kind, link.state, next.state) /\ link.queue = next.queue
       THEN [links |-> links, sems |-> sems, asserts |-> asserts]
       ELSE IF link.queue = next.queue
       THEN [links |-> [links EXCEPT ![index].release = SyncBarrier(states, stages)],
             sems |-> sems, asserts |-> asserts]
       ELSE IF link.queue.family = next.queue.family
       THEN LET sync == SameFamilySync(kind, states, stages, new_semaphore(sems))
            IN [links |-> [links EXCEPT ![index].release = sync.release,
                                        ![n].acquire = sync.acquire],
                sems |-> sems + 1, asserts |-> asserts]
       ELSE LET sync == TransferSync(kind, link, next, states, stages,
                                     new_semaphore(sems))
            IN [links |-> [links EXCEPT ![index].release = sync.release,
                                        ![n].acquire = sync.acquire],
                sems |-> sems + 1, asserts |-> asserts]

\* for index in 0..count: index is the 1-based position of the iteration;
\* asserts tells whether the debug_assert! conditions held in every iteration.
RECURSIVE SyncWalk(_, _, _, _)
SyncWalk(kind, links, index, sems) ==
    IF index > Len(links) THEN [links |-> links, sems |-> sems, asserts |-> TRUE]
    ELSE IF ~links[index].present THEN SyncWalk(kind, links, index + 1, sems)
    ELSE LET n == NextExisting(links, index)
         IN IF n = 0 THEN [links |-> links, sems |-> sems, asserts |-> TRUE]
            ELSE LET r == ResolveStep(kind, links, index, n, sems)
                     rest == SyncWalk(kind, r.links, index + 1, r.sems)
                 IN [rest EXCEPT !.asserts = r.asserts /\ rest.asserts]

\* Faulty variant of BuildResult: a chain is returned although every slot is absent.
BuildResultAlways(links, usage, init) ==
    [some |-> TRUE, usage |-> usage, init |-> init, links |-> links]

\* if links.iter().all(Option::is_none) { None } else { Some(Chain {..}) }.
BuildResult(links, usage, init) ==
    IF \A i \in 1..Len(links) : ~links[i].present
    THEN [some |-> FALSE]
    ELSE [some |-> TRUE, usage |-> usage, init |-> init, links |-> links]

\* Chain::build: panic tells whether the call panicked, chain is the
\* returned Option<Chain>, sems the number of new_semaphore calls, asserts
\* whether every debug_assert! of the synchronization loop held.
build(kind, id, usage, init, passes) ==
    LET merged == MergeWalk(kind, Collect(passes, id), 0)
    IN IF merged.panic
       THEN [panic |-> TRUE, chain |-> [some |-> FALSE], sems |-> 0,
             asserts |-> TRUE]
       ELSE LET synced == SyncWalk(kind, merged.links, 1, 0)
            IN [panic |-> FALSE,
                chain |-> BuildResult(synced.links,
                                      CollectUsage(usage, passes, id), init),
                sems |-> synced.sems,
                asserts |-> synced.asserts]

(***************************************************************************)
(* image/mod.rs: methods of image chains.  Positions are 1-based here, so  *)
(* the pass with index i of the source is position i + 1.                  *)
(***************************************************************************)

\* Chain::first_mut: the first existing link.
first_mut(chain) == First(Existing(chain.links))

\* Chain::last_mut: the last existing link.
last_mut(chain) == Last(Existing(chain.links))

\* Faulty variant of with_presentable_sync: both boundaries are overwritten without
\* looking at the decisions they carry.
with_presentable_sync_unchecked(chain, acquire, from, release, to) ==
    LET f == first_mut(chain)
        first == chain.links[f]
        patched == [chain EXCEPT !.links[f].acquire =
                        SyncTransfer(acquire,
                                     Range([access |-> none, layout |-> from], first.state),
                                     Range({"BOTTOM_OF_PIPE"}, first.stages),
                                     first.queue)]
        l == last_mut(patched)
        last == patched.links[l]
    IN [panic |-> FALSE,
        chain |-> [patched EXCEPT !.links[l].release =
                      SyncTransfer(release,
                                   Range(last.state, [access |-> none, layout |-> to]),
                                   Range(last.stages, {"TOP_OF_PIPE"}),
                                   last.queue)]]

\* Faulty variant of with_presentable_sync: the release of the last link is
\* overwritten without looking at the decision it carries.
with_presentable_sync_first_only(chain, acquire, from, release, to) ==
    LET f == first_mut(chain)
        first == chain.links[f]
    IN IF ~is_none(first.acquire) THEN [panic |-> TRUE, chain |-> chain]
       ELSE with_presentable_sync_unchecked(chain, acquire, from, release, to)

\* Faulty variant of with_presentable_sync: both boundaries are looked at
\* before either of them is written.
with_presentable_sync_atomic(chain, acquire, from, release, to) ==
    IF \/ ~is_none(chain.links[first_mut(chain)].acquire)
       \/ ~is_none(chain.links[last_mut(chain)].release)
    THEN [panic |-> TRUE, chain |-> chain]
    ELSE with_presentable_sync_unchecked(chain, acquire, from, release, to)

\* ImageChain::with_presentable_sync: the chain as the call leaves it and
\* whether the call panicked.
with_presentable_sync(chain, acquire, from, release, to) ==
    LET f == first_mut(chain)
        first == chain.links[f]
    IN IF ~is_none(first.acquire) THEN [panic |-> TRUE, chain |-> chain]
       ELSE LET patched == [chain EXCEPT !.links[f].acquire =
                                SyncTransfer(acquire,
                                             Range([access |-> none, layout |-> from],
                                                   first.state),
                                             Range({"BOTTOM_OF_PIPE"}, first.stages),
                                             first.queue)]
                l == last_mut(patched)
                last == patched.links[l]
            IN IF ~is_none(last.release) THEN [panic |-> TRUE, chain |-> patched]
               ELSE [panic |-> FALSE,
                     chain |-> [patched EXCEPT !.links[l].release =
                                   SyncTransfer(release,
                                                Range(last.state,
                                                      [access |-> none, layout |-> to]),
                                                Range(last.stages, {"TOP_OF_PIPE"}),
                                                last.queue)]]

\* ImageChain::store_op for the pass at position index.
store_op(chain, index) ==
    IF \E j \in Existing(chain.links) :
           j > index /\ is_read("image", chain.links[j].state.access)
    THEN "Store"
    ELSE "DontCare"

(***************************************************************************)
(* chain.rs: GraphChains, the chains of all resources of one kind.         *)
(***************************************************************************)

\* GraphChains::new: Chain::build for every identifier in 0..count, with an
\* allocator that is unimplemented!(), so the call panics as soon as a
\* build asks for a semaphore.  Slot i + 1 holds what build returned for
\* identifier i.
GraphChains_new(kind, count, init, usage, passes) ==
    LET built == [i \in 1..count |-> build(kind, i - 1, usage, init, passes)]
    IN IF \E i \in 1..count : built[i].panic \/ built[i].sems > 0
       THEN [panic |-> TRUE, chains |-> <<>>]
       ELSE [panic |-> FALSE, chains |-> [i \in 1..count |-> built[i].chain]]

\* GraphChains::chain / chain_mut: &self.chains[id.0], which panics when the
\* index is out of bounds.
GraphChains_chain(graph, id) ==
    IF id < Len(graph) THEN [panic |-> FALSE, value |-> graph[id + 1]]
    ELSE [panic |-> TRUE]

(***************************************************************************)
(* schedule/family.rs: a family and its array of queues.  A queue is       *)
(* represented by the identifier Queue::new is called with.                *)
(***************************************************************************)

\* Queue::new(QueueId::new(family, index)).
Queue_new(fid, index) == [id |-> [family |-> fid, index |-> index]]

\* Family::new: no queues yet.
Family_new(id) == [id |-> id, queues |-> <<>>]

\* Family::queue_count.
queue_count(f) == Len(f.queues)

\* Family::queue / queue_mut: assert_eq! on the family, then queues.get.
Family_queue(f, qid) ==
    IF f.id # qid.family THEN [panic |-> TRUE, some |-> FALSE]
    ELSE [panic |-> FALSE, some |-> qid.index < Len(f.queues)]

\* Faulty variant of Family_ensure_queue: the array is extended up to, but
\* not including, the requested index.
Family_ensure_queue_short(f, qid) ==
    IF f.id # qid.family THEN [panic |-> TRUE, family |-> f]
    ELSE LET len == Len(f.queues)
         IN [panic |-> FALSE,
             family |-> [f EXCEPT !.queues =
                           f.queues \o [i \in 1..(qid.index - len) |->
                                           Queue_new(qid.family, len + i - 1)]]]

\* Family::ensure_queue: assert_eq! on the family, then the array is
\* extended with the queues len..qid.index + 1.
Family_ensure_queue(f, qid) ==
    IF f.id # qid.family THEN [panic |-> TRUE, family |-> f]
    ELSE LET len == Len(f.queues)
         IN [panic |-> FALSE,
             family |-> [f EXCEPT !.queues =
                           f.queues \o [i \in 1..(qid.index + 1 - len) |->
                                           Queue_new(qid.family, len + i - 1)]]]

(***************************************************************************)
(* Inputs: queues, states and the links passes declare.                    *)
(***************************************************************************)

\* Two queues of family 0 and one queue of family 1.
Queues == { QueueId(0, 0), QueueId(1, 0), QueueId(0, 1) }

\* Chain identifiers: chains are built for Requested; Other is the chain
\* of links that do not take part.
Requested == 0
Other == 1

VS == {"VERTEX_SHADER"}
FS == {"FRAGMENT_SHADER"}

ImgR1 == [access |-> {"SHADER_READ"}, layout |-> "ShaderReadOnlyOptimal"]
ImgR2 == [access |-> {"DEPTH_STENCIL_ATTACHMENT_READ"},
          layout |-> "DepthStencilReadOnlyOptimal"]
ImgW == [access |-> {"COLOR_ATTACHMENT_WRITE"}, layout |-> "ColorAttachmentOptimal"]
ImgRW == [access |-> {"SHADER_READ", "SHADER_WRITE"}, layout |-> "General"]
ImgRP == [access |-> {"TRANSFER_READ"}, layout |-> "Present"]

BufR1 == [access |-> {"SHADER_READ"}, layout |-> NoLayout]
BufR2 == [access |-> {"VERTEX_BUFFER_READ"}, layout |-> NoLayout]
BufW == [access |-> {"TRANSFER_WRITE"}, layout |-> NoLayout]
BufRW == [access |-> {"SHADER_READ", "SHADER_WRITE"}, layout |-> NoLayout]

\* The usage flag a link with the given state contributes.
UsageOf(kind, state) ==
    IF is_write(kind, state.access) THEN {"STORAGE"} ELSE {"SAMPLED"}

\* Passes: a link of the requested chain with a state of `plain` and the
\* first stage mask on any queue; on queue (0, 0) also the states of
\* `second` with the second stage mask and the states of `special`; a pass
\* without links; a pass that declares a link of another chain only; and
\* a pass on queue (0, 1) that declares a link of another chain before its
\* link of the requested chain.
PassOptions(kind, plain, second, special) ==
    { PassLinks(q, << Link(Requested, VS, s, UsageOf(kind, s)) >>) :
        q \in Queues, s \in plain }
    \cup { PassLinks(QueueId(0, 0), << Link(Requested, FS, s, UsageOf(kind, s)) >>) :
            s \in second }
    \cup { PassLinks(QueueId(0, 0), << Link(Requested, VS, s, UsageOf(kind, s)) >>) :
            s \in special }
    \cup { PassLinks(QueueId(0, 0), <<>>) }
    \cup { PassLinks(QueueId(1, 0), << Link(Other, VS, s, UsageOf(kind, s)) >>) :
            s \in special }
    \cup { PassLinks(QueueId(0, 1), << Link(Other, FS, s, UsageOf(kind, s)),
                                       Link(Requested, VS, s, UsageOf(kind, s)) >>) :
            s \in special }

\* Rings of at most MaxPasses passes.
Rings(options) == UNION { [1..n -> options] : n \in 0..MaxPasses }

ImagePasses ==
    PassOptions("image", {ImgR1, ImgR2, ImgW}, {ImgR1, ImgW}, {ImgRW, ImgRP})
BufferPasses ==
    PassOptions("buffer", {BufR1, BufR2, BufW}, {BufR1, BufW}, {BufRW})

\* The passes of the rings on which the image methods are exercised.
PresentablePasses ==
    PassOptions("image", {ImgR1, ImgW}, {ImgR1}, {})

\* Semaphores and layouts a caller hands to with_presentable_sync.
ExternalWait == { [pair |-> -1, half |-> "wait"], [pair |-> -2, half |-> "wait"] }
ExternalSignal == { [pair |-> -1, half |-> "signal"] }
FromLayouts == { "Undefined", "Present" }
ToLayouts == { "Present" }

(***************************************************************************)
(* The state machine: a ring of passes is given, Chain::build runs on it.  *)
(***************************************************************************)

VARIABLES kind, passes, pc, chain, semaphores, asserted, history, ret,
          chains, family

vars == <<kind, passes, pc, chain, semaphores, asserted, history, ret,
          chains, family>>

\* GraphChains and Family values of the runs that do not use them.
NoChains == <<>>
NoFamily == Family_new(0)

\* No chain has been built yet, no call has been made.
Init ==
    /\ kind \in {"buffer", "image"}
    /\ passes \in Rings(IF kind = "image" THEN ImagePasses ELSE BufferPasses)
    /\ pc = "start"
    /\ chain = [some |-> FALSE]
    /\ semaphores = 0
    /\ asserted = TRUE
    /\ history = <<>>
    /\ ret = [op |-> "none"]
    /\ chains = NoChains
    /\ family = NoFamily

\* Chain::build(id, usage, init, passes, new_semaphore).
Build ==
    /\ pc = "start"
    /\ LET r == build(kind, Requested, {}, "Load", passes)
       IN /\ pc' = IF r.panic THEN "panicked" ELSE "built"
          /\ chain' = r.chain
          /\ semaphores' = r.sems
          /\ asserted' = r.asserts
    /\ UNCHANGED <<kind, passes, history, ret, chains, family>>

Next == Build

Spec == Init /\ [][Next]_vars

\* An image chain is requested on a ring of PresentablePasses.
InitImage ==
    /\ kind = "image"
    /\ passes \in Rings(PresentablePasses)
    /\ pc = "start"
    /\ chain = [some |-> FALSE]
    /\ semaphores = 0
    /\ asserted = TRUE
    /\ history = <<>>
    /\ ret = [op |-> "none"]
    /\ chains = NoChains
    /\ family = NoFamily

\* chain.with_presentable_sync(acquire, from, release, to) on a built chain;
\* history records how every call ended.
WithPresentableSync ==
    /\ pc = "built"
    /\ chain.some
    /\ \E acquire \in ExternalWait, from \in FromLayouts,
          release \in ExternalSignal, to \in ToLayouts :
          LET r == with_presentable_sync(chain, acquire, from, release, to)
          IN /\ chain' = r.chain
             /\ pc' = IF r.panic THEN "panicked" ELSE "built"
             /\ history' = Append(history, IF r.panic THEN "panic" ELSE "ok")
    /\ UNCHANGED <<kind, passes, semaphores, asserted, ret, chains, family>>

\* chain.store_op(index) on a built chain; ret records the answer.
StoreOp ==
    /\ pc = "built"
    /\ chain.some
    /\ \E index \in 1..Len(chain.links) :
          ret' = [op |-> "store_op", index |-> index, value |-> store_op(chain, index)]
    /\ UNCHANGED <<kind, passes, pc, chain, semaphores, asserted, history,
                   chains, family>>

NextImage == Build \/ WithPresentableSync \/ StoreOp

SpecImage == InitImage /\ [][NextImage]_vars

(***************************************************************************)
(* GraphChains::new on a ring of passes, then lookups by identifier.       *)
(***************************************************************************)

\* Passes of a graph: reads and writes of chain 0 on every queue, an empty
\* pass, a pass that uses chain 1 only and a pass that uses both chains.
GraphPasses(k) ==
    IF k = "image" THEN PassOptions("image", {ImgR1, ImgW}, {}, {ImgR1})
    ELSE PassOptions("buffer", {BufR1, BufW}, {}, {BufR1})

InitGraph ==
    /\ kind \in {"buffer", "image"}
    /\ passes \in Rings(GraphPasses(kind))
    /\ pc = "start"
    /\ chain = [some |-> FALSE]
    /\ semaphores = 0
    /\ asserted = TRUE
    /\ history = <<>>
    /\ ret = [op |-> "none"]
    /\ chains = NoChains
    /\ family = NoFamily

\* GraphChains::new(count, init, usage, links); ret records the call.
GraphNew ==
    /\ pc = "start"
    /\ \E count \in 0..MaxCount :
          LET r == GraphChains_new(kind, count, "Load", {}, passes)
          IN /\ pc' = IF r.panic THEN "panicked" ELSE "built"
             /\ chains' = r.chains
             /\ ret' = [op |-> "new", count |-> count, panic |-> r.panic]
    /\ UNCHANGED <<kind, passes, chain, semaphores, asserted, history, family>>

\* graph.chain(id) after GraphChains::new has returned; count is kept so
\* that the answer can be compared with the call that built the graph.
GraphChain ==
    /\ pc = "built"
    /\ ret.op \in {"new", "chain"}
    /\ \E id \in 0..MaxCount :
          ret' = [op |-> "chain", count |-> ret.count, id |-> id]
                 @@ GraphChains_chain(chains, id)
    /\ UNCHANGED <<kind, passes, pc, chain, semaphores, asserted, history,
                   chains, family>>

NextGraph == GraphNew \/ GraphChain

SpecGraph == InitGraph /\ [][NextGraph]_vars

(***************************************************************************)
(* common_image_layout and ImageState::merge applied to chosen arguments.  *)
(***************************************************************************)

\* hal::image::ImageLayout.
ImageLayouts ==
    {"General", "ColorAttachmentOptimal", "DepthStencilAttachmentOptimal",
     "DepthStencilReadOnlyOptimal", "ShaderReadOnlyOptimal",
     "TransferSrcOptimal", "TransferDstOptimal", "Undefined",
     "Preinitialized", "Present"}

\* Image states handed to merge: a read and a write mask in every layout.
MergeStates ==
    { [access |-> a, layout |-> l] :
        a \in {{"SHADER_READ"}, {"COLOR_ATTACHMENT_WRITE"}}, l \in ImageLayouts }

InitLayout ==
    /\ kind = "image"
    /\ passes = <<>>
    /\ pc = "start"
    /\ chain = [some |-> FALSE]
    /\ semaphores = 0
    /\ asserted = TRUE
    /\ history = <<>>
    /\ ret = [op |-> "none"]
    /\ chains = NoChains
    /\ family = NoFamily

\* common_image_layout(left, right); ret records the arguments and the
\* outcome.
CommonImageLayout ==
    /\ \E left \in ImageLayouts, right \in ImageLayouts :
          ret' = [op |-> "common_image_layout", left |-> left, right |-> right,
                  panic |-> common_image_layout_panics(left, right),
                  value |-> IF common_image_layout_panics(left, right)
                            THEN "none"
                            ELSE common_image_layout(left, right)]
    /\ UNCHANGED <<kind, passes, pc, chain, semaphores, asserted, history,
                   chains, family>>

\* a.merge(b) for two image states; some tells whether Some(..) came back.
ImageMerge ==
    /\ \E a \in MergeStates, b \in MergeStates :
          ret' = [op |-> "merge", a |-> a, b |-> b,
                  panic |-> merge_panics("image", a, b),
                  some |-> ~merge_panics("image", a, b)
                           /\ merge_is_some("image", a, b),
                  value |-> IF ~merge_panics("image", a, b)
                               /\ merge_is_some("image", a, b)
                            THEN merge("image", a, b)
                            ELSE [access |-> none, layout |-> "none"]]
    /\ UNCHANGED <<kind, passes, pc, chain, semaphores, asserted, history,
                   chains, family>>

NextLayout == CommonImageLayout \/ ImageMerge

SpecLayout == InitLayout /\ [][NextLayout]_vars

(***************************************************************************)
(* A family: ensure_queue, queue and queue_mut calls.  history lists the   *)
(* indices of the ensure_queue calls that returned; a call that fails its  *)
(* assertion ends the run.                                                 *)
(***************************************************************************)

\* Families queue identifiers may name.
FamilyIds == {0, 1}

\* Queue identifiers handed to the calls.
FamilyQueueIds == { [family |-> f, index |-> i] : f \in FamilyIds, i \in 0..MaxIndex }

InitFamily ==
    /\ kind = "buffer"
    /\ passes = <<>>
    /\ pc = "start"
    /\ chain = [some |-> FALSE]
    /\ semaphores = 0
    /\ asserted = TRUE
    /\ history = <<>>
    /\ ret = [op |-> "none"]
    /\ chains = NoChains
    /\ family \in { Family_new(id) : id \in FamilyIds }

\* family.ensure_queue(qid).
EnsureQueue ==
    /\ pc = "start"
    /\ Len(history) < MaxCalls
    /\ \E qid \in FamilyQueueIds :
          LET r == Family_ensure_queue(family, qid)
          IN /\ family' = r.family
             /\ pc' = IF r.panic THEN "panicked" ELSE pc
             /\ history' = IF r.panic THEN history ELSE Append(history, qid.index)
             /\ ret' = [op |-> "ensure_queue", qid |-> qid, panic |-> r.panic,
                        some |-> ~r.panic]
    /\ UNCHANGED <<kind, passes, chain, semaphores, asserted, chains>>

\* family.queue(qid) or family.queue_mut(qid).
QueueLookup ==
    /\ pc = "start"
    /\ \E qid \in FamilyQueueIds, op \in {"queue", "queue_mut"} :
          LET r == Family_queue(family, qid)
          IN /\ pc' = IF r.panic THEN "panicked" ELSE pc
             /\ ret' = [op |-> op, qid |-> qid, panic |-> r.panic, some |-> r.some]
    /\ UNCHANGED <<kind, passes, chain, semaphores, asserted, history, chains,
                   family>>

NextFamily == EnsureQueue \/ QueueLookup

SpecFamily == InitFamily /\ [][NextFamily]_vars

(***************************************************************************)
(* Properties of Chain::build.                                             *)
(***************************************************************************)

\* Chain::build returned a chain.
Built == pc = "built" /\ chain.some

\* The transitions of the built chain: an existing link and its next
\* existing link in ring order.
Transitions ==
    { t \in Existing(chain.links) \X Existing(chain.links) :
        t[2] = NextExisting(chain.links, t[1]) }

\* The two halves of one semaphore pair that new_semaphore handed out.
SamePair(signal, wait) ==
    \E p \in 1..semaphores :
        /\ signal = [pair |-> p, half |-> "signal"]
        /\ wait = [pair |-> p, half |-> "wait"]

\* C1: every transition between links on queues of different families is
\* resolved as a Transfer release and a Transfer acquire that carry the two
\* halves of one allocated semaphore pair, the same state and stage ranges,
\* and each other's queue.
C1_TransferPair ==
    Built =>
      \A t \in Transitions :
        LET link == chain.links[t[1]]
            next == chain.links[t[2]]
        IN link.queue.family # next.queue.family =>
             /\ link.release.kind = "Transfer"
             /\ next.acquire.kind = "Transfer"
             /\ SamePair(link.release.semaphore, next.acquire.semaphore)
             /\ link.release.states = next.acquire.states
             /\ link.release.stages = next.acquire.stages
             /\ link.release.other = next.queue
             /\ next.acquire.other = link.queue

\* C1 witness: a chain with an absent slot whose wrap-around transition
\* (last existing link to first existing link) crosses queue families and
\* carries the Transfer pair.
C1_Witness ==
    /\ Built
    /\ Cardinality(Existing(chain.links)) = 2
    /\ Len(chain.links) = 3
    /\ LET f == First(Existing(chain.links))
           l == Last(Existing(chain.links))
       IN /\ chain.links[l].queue.family # chain.links[f].queue.family
          /\ chain.links[l].release.kind = "Transfer"
          /\ chain.links[f].acquire.kind = "Transfer"
          /\ chain.links[l].release.other = chain.links[f].queue

\* The passes that declare a link for the requested chain.
Declaring == { i \in 1..Len(passes) : Matching(passes[i], Requested) # {} }

\* C9: Chain::build returns None, without failing, when no pass declares a
\* link for the chain (the empty ring included); otherwise it returns a chain
\* with one slot per pass, present exactly at the declaring passes.
C9_AbsentChain ==
    /\ (pc # "start" /\ Declaring = {}) => (pc = "built" /\ ~chain.some)
    /\ (pc = "built" /\ Declaring # {}) =>
          /\ chain.some
          /\ Len(chain.links) = Len(passes)
          /\ \A i \in 1..Len(passes) : chain.links[i].present <=> i \in Declaring

\* C9 witness: Chain::build has returned None for the ring without passes.
C9_Witness == pc = "built" /\ passes = <<>> /\ ~chain.some

\* C10: the only existing link of a chain keeps no-op acquire and release
\* and its declared state and stages, and no semaphore is allocated.
C10_SingleLink ==
    (pc # "start" /\ Cardinality(Declaring) = 1) =>
        /\ Built
        /\ semaphores = 0
        /\ \A i \in Declaring :
             LET link == chain.links[i]
                 decl == passes[i].links[FindLink(passes[i], Requested)]
             IN /\ link.present
                /\ is_none(link.acquire)
                /\ is_none(link.release)
                /\ link.merged_state = decl.state
                /\ link.merged_stages = decl.stages

\* C10 witness: a chain whose only link is a write in the middle slot of
\* three, left without decisions.
C10_Witness ==
    /\ Built
    /\ Len(chain.links) = 3
    /\ Existing(chain.links) = {2}
    /\ is_write(kind, chain.links[2].state.access)
    /\ is_none(chain.links[2].release)

\* A state with all access bits removed.
AccessStripped(state) == [access |-> {}, layout |-> state.layout]

\* A state whose content need not be kept: the layout of an image becomes
\* Undefined, a buffer state stays as it is.
Discarded(state) ==
    IF kind = "image" THEN [access |-> state.access, layout |-> "Undefined"]
    ELSE state

\* An access that writes and does not read / reads and does not write.
WriteOnly(state) == is_write(kind, state.access) /\ ~is_read(kind, state.access)
ReadOnly(state) == is_read(kind, state.access) /\ ~is_write(kind, state.access)

\* C2 as stated: between different queues of one family the decision
\* depends on whether the two declared states, access bits removed, are
\* equal: Semaphore / Semaphore if so, BarrierSemaphore / Semaphore if not.
C2_AsStated ==
    Built =>
      \A t \in Transitions :
        LET link == chain.links[t[1]]
            next == chain.links[t[2]]
        IN (link.queue # next.queue /\ link.queue.family = next.queue.family) =>
             /\ next.acquire.kind = "Semaphore"
             /\ IF AccessStripped(link.state) = AccessStripped(next.state)
                THEN link.release.kind = "Semaphore"
                ELSE link.release.kind = "BarrierSemaphore"

\* C2 amended: the states compared are the end points of the transition
\* range, access bits removed: the earlier link's merged state, content
\* discarded when the later access is not a read, and the later link's
\* merged state.  Equal end points give Semaphore / Semaphore, different
\* ones BarrierSemaphore / Semaphore.
C2_SameFamily ==
    Built =>
      \A t \in Transitions :
        LET link == chain.links[t[1]]
            next == chain.links[t[2]]
            start == IF is_read(kind, next.state.access)
                     THEN link.merged_state
                     ELSE Discarded(link.merged_state)
        IN (link.queue # next.queue /\ link.queue.family = next.queue.family) =>
             /\ next.acquire.kind = "Semaphore"
             /\ IF AccessStripped(start) = AccessStripped(next.merged_state)
                THEN link.release.kind = "Semaphore"
                ELSE link.release.kind = "BarrierSemaphore"

\* C2 witness: an image chain with one transition between queues of a
\* family resolved Semaphore-only and another one resolved with a
\* BarrierSemaphore release.
C2_Witness ==
    /\ Built
    /\ kind = "image"
    /\ \E t \in Transitions, u \in Transitions :
         /\ chain.links[t[1]].queue # chain.links[t[2]].queue
         /\ chain.links[t[1]].queue.family = chain.links[t[2]].queue.family
         /\ chain.links[t[1]].release.kind = "Semaphore"
         /\ chain.links[t[2]].acquire.kind = "Semaphore"
         /\ chain.links[u[1]].queue # chain.links[u[2]].queue
         /\ chain.links[u[1]].queue.family = chain.links[u[2]].queue.family
         /\ chain.links[u[1]].release.kind = "BarrierSemaphore"
         /\ chain.links[u[2]].acquire.kind = "Semaphore"

\* A chain of at least two links, all on one queue, in which every
\* transition leads from a write to a read or from a read to a write.
Alternating ==
    /\ Built
    /\ Cardinality(Existing(chain.links)) >= 2
    /\ \A i, j \in Existing(chain.links) : chain.links[i].queue = chain.links[j].queue
    /\ \A t \in Transitions :
         \/ WriteOnly(chain.links[t[1]].state) /\ ReadOnly(chain.links[t[2]].state)
         \/ ReadOnly(chain.links[t[1]].state) /\ WriteOnly(chain.links[t[2]].state)

\* C3 as stated: in an alternating ring every transition is a Barrier on
\* the release of the earlier link whose state range runs from the
\* writer's state, discard-adjusted or not, to the reader's state; every
\* acquire stays no-op.
C3_AsStated ==
    Alternating =>
      /\ \A i \in Existing(chain.links) : is_none(chain.links[i].acquire)
      /\ \A t \in Transitions :
           LET link == chain.links[t[1]]
               next == chain.links[t[2]]
               writer == IF WriteOnly(link.state) THEN link ELSE next
               reader == IF WriteOnly(link.state) THEN next ELSE link
           IN /\ link.release.kind = "Barrier"
              /\ link.release.states.start \in {writer.state, Discarded(writer.state)}
              /\ link.release.states.end = reader.state

\* C3 amended: in an alternating ring every transition is a Barrier on the
\* release of the earlier link whose state range runs from the earlier
\* link's state, content discarded when the later link is the writer, to
\* the later link's state; every acquire stays no-op.
C3_BarrierOnly ==
    Alternating =>
      /\ \A i \in Existing(chain.links) : is_none(chain.links[i].acquire)
      /\ \A t \in Transitions :
           LET link == chain.links[t[1]]
               next == chain.links[t[2]]
           IN /\ link.release.kind = "Barrier"
              /\ link.release.states.start =
                    IF WriteOnly(next.state) THEN Discarded(link.state) ELSE link.state
              /\ link.release.states.end = next.state

\* C3 witness: an alternating image ring whose read-to-write transition is
\* a Barrier that starts in the reader's state with the layout Undefined.
C3_Witness ==
    /\ Alternating
    /\ kind = "image"
    /\ \E t \in Transitions :
         /\ ReadOnly(chain.links[t[1]].state)
         /\ chain.links[t[1]].release.kind = "Barrier"
         /\ chain.links[t[1]].release.states.start.layout = "Undefined"
         /\ chain.links[t[1]].release.states.start.access = chain.links[t[1]].state.access

\* C4: when all links declare one read-only state on one queue, no link
\* carries a decision, no semaphore is allocated and all links share one
\* merged state and one merged stage mask.
C4_ReadOnlyRing ==
    ( /\ Built
      /\ \A i, j \in Existing(chain.links) :
           /\ chain.links[i].state = chain.links[j].state
           /\ chain.links[i].queue = chain.links[j].queue
      /\ \A i \in Existing(chain.links) : ReadOnly(chain.links[i].state) )
    => /\ semaphores = 0
       /\ \A i \in Existing(chain.links) :
            /\ is_none(chain.links[i].acquire)
            /\ is_none(chain.links[i].release)
       /\ \A i, j \in Existing(chain.links) :
            /\ chain.links[i].merged_state = chain.links[j].merged_state
            /\ chain.links[i].merged_stages = chain.links[j].merged_stages

\* C5: State::merge succeeds only for two states without a write flag, and
\* a transition one of whose states carries a write flag is not merged and
\* gets a decision that is not a no-op.
C5_MergeOnlyPureRead ==
    Built =>
      \A t \in Transitions :
        LET link == chain.links[t[1]]
            next == chain.links[t[2]]
            writes == is_write(kind, link.state.access)
                      \/ is_write(kind, next.state.access)
        IN /\ merge_is_some(kind, link.state, next.state) => ~writes
           /\ writes => ~is_none(link.release)

(***************************************************************************)
(* Properties of image chains.                                             *)
(***************************************************************************)

\* The next existing link in ring order; the only link of a chain is its
\* own successor.
RingNext(i) ==
    IF NextExisting(chain.links, i) = 0 THEN i ELSE NextExisting(chain.links, i)

\* Transfer decisions come in matched pairs: a release is a Transfer exactly
\* when the acquire of the next link is one, and then the two carry the
\* signal and the wait half of one pair and name each other's queue.
TransfersMatched ==
    \A i \in Existing(chain.links) :
      LET link == chain.links[i]
          next == chain.links[RingNext(i)]
      IN /\ link.release.kind = "Transfer" <=> next.acquire.kind = "Transfer"
         /\ link.release.kind = "Transfer" =>
              /\ link.release.semaphore.half = "signal"
              /\ next.acquire.semaphore.half = "wait"
              /\ link.release.semaphore.pair = next.acquire.semaphore.pair
              /\ link.release.other = next.queue
              /\ next.acquire.other = link.queue

\* C6 as stated: Transfer decisions are matched in every chain state that
\* Chain::build and any number of successful with_presentable_sync calls
\* lead to.
C6_AsStated == Built => TransfersMatched

\* C6 amended: Transfer decisions are matched in every chain state that
\* Chain::build produces, before with_presentable_sync is called.
C6_MatchedAfterBuild == (Built /\ history = <<>>) => TransfersMatched

\* C6 witness: a freshly built chain with a Transfer release whose next
\* link carries the Transfer acquire.
C6_Witness ==
    /\ Built
    /\ history = <<>>
    /\ \E i \in Existing(chain.links) :
         /\ RingNext(i) # i
         /\ chain.links[i].release.kind = "Transfer"
         /\ chain.links[RingNext(i)].acquire.kind = "Transfer"

\* C7: store_op(index) is DontCare exactly when no other pass, going round
\* the ring from index, reads the resource; and on the chain of a read
\* followed by two write-only passes both answers occur.
C7_StoreOpRing ==
    /\ ret.op = "store_op" =>
         ( ret.value = "DontCare" <=>
             ~\E j \in Existing(chain.links) \ {ret.index} :
                 is_read(kind, chain.links[j].state.access) )
    /\ ( /\ Built
         /\ Existing(chain.links) = {1, 2, 3}
         /\ ReadOnly(chain.links[1].state)
         /\ WriteOnly(chain.links[2].state)
         /\ WriteOnly(chain.links[3].state) )
       => { store_op(chain, i) : i \in 1..3 } = {"Store", "DontCare"}

\* C8: after a with_presentable_sync call that succeeded, the next call on
\* the chain panics.
C8_SecondCallFails ==
    \A k \in 1..Len(history) :
        (k > 1 /\ history[k - 1] = "ok") => history[k] = "panic"

\* C8 witness: a first call has succeeded and a second one has panicked.
C8_Witness == history = <<"ok", "panic">>

\* C11: in every run of Chain::build the two debug_assert! conditions of the
\* synchronization loop hold at every transition it resolves: the release
\* of the current link and the acquire of its next existing link are still
\* no-op, so each of them is written at most once.
C11_WrittenOnce == pc # "start" => asserted

\* C11 witness: a chain of three existing links in which every release and
\* every acquire has been written, and no assertion failed.
C11_Witness ==
    /\ Built
    /\ asserted
    /\ Existing(chain.links) = {1, 2, 3}
    /\ \A i \in 1..3 :
         ~is_none(chain.links[i].release) /\ ~is_none(chain.links[i].acquire)

\* C12: when the synchronization loop reaches a transition between two links
\* on one queue whose original states merge, both links carry the same
\* merged state and the same merged stages.
C12_MergeRecorded ==
    Built =>
      \A t \in Transitions :
        LET link == chain.links[t[1]]
            next == chain.links[t[2]]
        IN (link.queue = next.queue /\ merge_is_some(kind, link.state, next.state))
           => /\ link.merged_state = next.merged_state
              /\ link.merged_stages = next.merged_stages

\* C13: GraphChains::new(count, ..) returns, for every ring, a graph with one
\* chain per identifier in 0..count; afterwards chain(id) answers with what
\* Chain::build gives for exactly that id when id < count, and fails when
\* id >= count.
C13_GraphChains ==
    /\ ret.op = "new" =>
         /\ ~ret.panic
         /\ Len(chains) = ret.count
    /\ ret.op = "chain" =>
         /\ ret.panic <=> ret.id >= ret.count
         /\ ~ret.panic => ret.value = build(kind, ret.id, {}, "Load", passes).chain

\* C14: common_image_layout(left, right) panics whenever left or right is
\* Present, whatever the other argument is, and so does the merge of two
\* read states of which one has the layout Present.
C14_PresentRejected ==
    /\ (ret.op = "common_image_layout"
        /\ (ret.left = "Present" \/ ret.right = "Present")) => ret.panic
    /\ (ret.op = "merge"
        /\ is_read("image", ret.a.access) /\ is_read("image", ret.b.access)
        /\ (ret.a.layout = "Present" \/ ret.b.layout = "Present")) => ret.panic

\* The largest index ensure_queue has been asked for, plus one; 0 if none.
RequestedCount ==
    IF history = <<>> THEN 0
    ELSE 1 + CHOOSE m \in { history[k] : k \in 1..Len(history) } :
                 \A k \in 1..Len(history) : history[k] <= m

\* C15: after any sequence of ensure_queue calls for the family's own id,
\* queue_count is one more than the largest index ever requested (0 if there
\* was none), the queue at position i has the identifier (family id, i),
\* and queue(qid) is present exactly when qid.index < queue_count; a queue,
\* queue_mut or ensure_queue call with another family's qid fails its
\* assertion and leaves the family as it was.
C15_FamilyQueues ==
    /\ queue_count(family) = RequestedCount
    /\ \A i \in 1..Len(family.queues) :
         family.queues[i] = Queue_new(family.id, i - 1)
    /\ \A qid \in FamilyQueueIds :
         IF qid.family = family.id
         THEN /\ ~Family_queue(family, qid).panic
              /\ Family_queue(family, qid).some <=> qid.index < queue_count(family)
              /\ ~Family_ensure_queue(family, qid).panic
         ELSE /\ Family_queue(family, qid).panic
              /\ Family_ensure_queue(family, qid).panic
              /\ Family_ensure_queue(family, qid).family = family
    /\ ret.op \in {"queue", "queue_mut", "ensure_queue"} =>
         /\ ret.panic <=> ret.qid.family # family.id
         /\ ret.panic <=> pc = "panicked"
         /\ ret.op = "ensure_queue" /\ ~ret.panic =>
              /\ ret.qid.index < queue_count(family)
              /\ history[Len(history)] = ret.qid.index
         /\ ret.op # "ensure_queue" /\ ~ret.panic =>
              (ret.some <=> ret.qid.index < queue_count(family))

\* C15 witness: the family grew to three queues by a request for index 2,
\* a later request for index 0 changed nothing, and a lookup with the other
\* family's identifier failed.
C15_Witness ==
    /\ history = <<2, 0>>
    /\ queue_count(family) = 3
    /\ ret.op = "queue"
    /\ ret.panic
    /\ pc = "panicked"

C17_FirstCall ==
    [][ (history = <<>> /\ history' # <<>>) =>
          LET first == chain.links[first_mut(chain)]
              last == chain.links[last_mut(chain)]
              clear == is_none(first.acquire) /\ is_none(last.release)
              single == Cardinality(Existing(chain.links)) = 1
              merged == /\ last.queue = first.queue
                        /\ merge_is_some(kind, last.state, first.state)
          IN /\ history'[1] = "ok" <=> clear
             /\ clear <=> (single \/ merged) ]_vars

\* C17 witness: the first call has failed on the chain of a write followed
\* by a read on one queue.
C17_Witness ==
    /\ history = <<"panic">>
    /\ Existing(chain.links) = {1, 2}
    /\ chain.links[1].queue = chain.links[2].queue
    /\ WriteOnly(chain.links[1].state)
    /\ ReadOnly(chain.links[2].state)

\* C19: a with_presentable_sync call that fails although the first existing
\* link's acquire was no-op (so it failed on the last link's release) has
\* already replaced that acquire with a Transfer and changed nothing else;
\* a call that fails on the first link's acquire leaves the chain unchanged.
C19_FailureNotAtomic ==
    [][ (Len(history') = Len(history) + 1 /\ history'[Len(history')] = "panic") =>
          LET f == first_mut(chain)
          IN IF is_none(chain.links[f].acquire)
             THEN /\ ~is_none(chain.links[last_mut(chain)].release)
                  /\ chain'.links[f].acquire.kind = "Transfer"
                  /\ chain'.links[f].acquire.semaphore \in ExternalWait
                  /\ chain' = [chain EXCEPT !.links[f].acquire = chain'.links[f].acquire]
             ELSE chain' = chain ]_vars

\* C19 witness: the first call failed on the last link's release, which is
\* still the Barrier Chain::build gave it, and the first link's acquire is
\* the Transfer of the failed call.
C19_Witness ==
    /\ history = <<"panic">>
    /\ Cardinality(Existing(chain.links)) >= 2
    /\ chain.links[first_mut(chain)].acquire.kind = "Transfer"
    /\ chain.links[first_mut(chain)].acquire.semaphore \in ExternalWait
    /\ chain.links[last_mut(chain)].release.kind = "Barrier"

\* The transitions of the built chain between links on different queues.
CrossQueue ==
    { t \in Transitions : chain.links[t[1]].queue # chain.links[t[2]].queue }

\* The links whose release signals / whose acquire waits on pair p.
Signalling(p) ==
    { i \in Existing(chain.links) :
        /\ chain.links[i].release.kind \in {"Semaphore", "BarrierSemaphore", "Transfer"}
        /\ chain.links[i].release.semaphore = [pair |-> p, half |-> "signal"] }
Waiting(p) ==
    { i \in Existing(chain.links) :
        /\ chain.links[i].acquire.kind \in {"Semaphore", "BarrierSemaphore", "Transfer"}
        /\ chain.links[i].acquire.semaphore = [pair |-> p, half |-> "wait"] }

\* C18: Chain::build calls the allocator once for every transition between
\* existing links on different queues and for no other; the signal half of
\* every pair it got is in the release of exactly one link and the wait half
\* in the acquire of exactly one link, which is that link's next existing
\* link; no release carries a wait half or a foreign handle, and no acquire
\* a signal half.
C18_SemaphoreUse ==
    Built =>
      /\ semaphores = Cardinality(CrossQueue)
      /\ \A p \in 1..semaphores :
           \E t \in CrossQueue : Signalling(p) = {t[1]} /\ Waiting(p) = {t[2]}
      /\ \A i \in Existing(chain.links) :
           /\ chain.links[i].release.kind \in {"Semaphore", "BarrierSemaphore", "Transfer"}
                => \E p \in 1..semaphores : i \in Signalling(p)
           /\ chain.links[i].acquire.kind \in {"Semaphore", "BarrierSemaphore", "Transfer"}
                => \E p \in 1..semaphores : i \in Waiting(p)

\* C18 witness: a chain of three existing links with two transitions between
\* different queues and one on a single queue: two pairs were allocated.
C18_Witness ==
    /\ Built
    /\ Cardinality(Existing(chain.links)) = 3
    /\ Cardinality(CrossQueue) = 2
    /\ semaphores = 2
    /\ \A p \in 1..2 : Cardinality(Signalling(p)) = 1 /\ Cardinality(Waiting(p)) = 1

====
